---- MODULE Spec2Model ----
(***************************************************************************)
(* Guia Cerrado payment backend (src/backend): the Flask handlers of       *)
(* app.py, the store operations of supabase_client.py and the link         *)
(* builders of pagarme_client.py, as a state machine over the four tables  *)
(* of the store and the log of requests sent to the payment provider.      *)
(*                                                                         *)
(* JSON values are records of one fixed shape per position.  A key that is *)
(* missing (Python's None from dict.get) is the string Absent.  Timestamps *)
(* (created_at of pagamentos, updated_at, received_at) are left out: no    *)
(* handler reads them.  Money stored in major units (total) is kept as the *)
(* number of cents it was computed from.                                   *)
(***************************************************************************)
EXTENDS Integers, Sequences, FiniteSets, TLC

VARIABLES
    pagamentos,        \* table 'pagamentos': sequence of rows, in insertion order
    pedidos_header,    \* table 'pedidos_header': set of rows
    pedidos,           \* table 'pedidos': set of line-item rows
    webhooks_pagarme,  \* table 'webhooks_pagarme': sequence of rows (audit log)
    http_log,          \* requests POSTed to {PAGARME_BASE_URL}/paymentlinks, with the answer
    op,                \* the handler that served the last request
    req,               \* that request's input
    resp,              \* the HTTP response it got
    calls,             \* the store calls that request made, in order, and whether each raised
    n_req,             \* number of requests served
    inflight           \* webhook handlers running concurrently: body, position, store calls

vars == <<pagamentos, pedidos_header, pedidos, webhooks_pagarme, http_log,
          op, req, resp, calls, n_req, inflight>>

\* ---------------------------------------------------------------- bounds
MaxDeliveries == 1    \* deliveries per behaviour of WebhookSpec
MaxReq == 2           \* requests per behaviour of Spec
MaxCheckouts == 1     \* requests per behaviour of AssinaturaSpec and of PedidoSpec
MaxItens == 2         \* line items of the purchase reference in PedidoSpec
MaxUpserts == 2       \* header writes and checkouts per behaviour of HeaderSpec
MaxRedeliveries == 1  \* deliveries after the first per behaviour of RedeliverySpec
MaxEvents == 2        \* order events per behaviour of OrderEventsSpec
MaxHandlers == 2      \* webhook handlers running concurrently in ConcurrentSpec

\* ---------------------------------------------------------------- values
Absent == "<absent>"

\* Python truthiness of an optional string: None and "" are falsy.
Truthy(s) == s # Absent /\ s # ""

NumerosCompra == {"GC-1", "GC-2"}

\* ------------------------------------------------------------------------
\* The store's tables as one record, handed to and returned by the handlers.
\* ------------------------------------------------------------------------
Db == [pagamentos |-> pagamentos, pedidos_header |-> pedidos_header,
       pedidos |-> pedidos, webhooks_pagarme |-> webhooks_pagarme]

\* One store call of a request: the operation, the key and value it was given, whether it
\* raised, and (for the audit insert) the payload it was given.
Call(fn, key, val, raised, payload) ==
    [fn |-> fn, key |-> key, val |-> val, raised |-> raised, payload |-> payload]

\* ================================================================ store
\* supabase_client.py.  Each operation is one round trip; a fault makes it raise
\* SupabaseError and leaves the table as it was.

\* update(...).eq("payment_link_id", payment_link_id): every matching row, zero or more.
atualizar_pagamento_por_payment_link(tbl, payment_link_id, novo_status, extra_order_id) ==
    [i \in DOMAIN tbl |->
        IF tbl[i].payment_link_id = payment_link_id
        THEN [tbl[i] EXCEPT !.pagarme_status = novo_status,
                            !.order_id = IF extra_order_id # Absent THEN extra_order_id ELSE @]
        ELSE tbl[i]]

\* update(...).eq("order_id", order_id)
atualizar_pagamento_por_order_id(tbl, order_id, novo_status) ==
    [i \in DOMAIN tbl |->
        IF tbl[i].order_id = order_id
        THEN [tbl[i] EXCEPT !.pagarme_status = novo_status]
        ELSE tbl[i]]

\* The audit insert skipped when the log already holds the same row.
salvar_webhook_pagarme_once(tbl, event_type, payload) ==
    IF \E i \in DOMAIN tbl : tbl[i] = [event_type |-> event_type, payload |-> payload]
    THEN tbl
    ELSE Append(tbl, [event_type |-> event_type, payload |-> payload])

\* insert of one audit row
salvar_webhook_pagarme(tbl, event_type, payload) ==
    Append(tbl, [event_type |-> event_type, payload |-> payload])

\* update({"status": status}).eq("numero_compra", numero_compra): all rows of the key
marcar_itens_com_status(tbl, numero_compra, status) ==
    { IF r.numero_compra = numero_compra THEN [r EXCEPT !.status = status] ELSE r : r \in tbl }

\* The header update guarded by an ordering check: a paid order is not cancelled.
atualizar_status_pedido_keep_paid(tbl, numero_compra, novo_status, pagarme_transaction_id) ==
    { IF r.numero_compra = numero_compra /\ ~(r.status = "pago" /\ novo_status = "cancelado")
      THEN [r EXCEPT !.status = novo_status,
                     !.pagarme_transaction_id =
                         IF Truthy(pagarme_transaction_id) THEN pagarme_transaction_id ELSE @]
      ELSE r : r \in tbl }

\* update of status (and of the transaction id when one is given) of the header rows of the key
atualizar_status_pedido(tbl, numero_compra, novo_status, pagarme_transaction_id) ==
    { IF r.numero_compra = numero_compra
      THEN [r EXCEPT !.status = novo_status,
                     !.pagarme_transaction_id =
                         IF Truthy(pagarme_transaction_id) THEN pagarme_transaction_id ELSE @]
      ELSE r : r \in tbl }

\* ================================================================ webhook bodies
\* data.metadata of an event: kind "dict" is a JSON object with the keys below (Absent =
\* key missing), "str" a truthy non-object (a string), "absent" a missing/null value.
EmptyMeta == [kind |-> "dict", payment_link_id |-> Absent, tipo |-> Absent,
              tipo_assinatura |-> Absent, numero_compra |-> Absent,
              supabase_user_id |-> Absent, origem |-> Absent]

\* data of an event: kind as for metadata.
EmptyData == [kind |-> "dict", id |-> Absent, metadata |-> [EmptyMeta EXCEPT !.kind = "absent"]]

\* The JSON object {} : what an unparseable or empty body degrades to.
EmptyObject == [kind |-> "object", type |-> Absent, data |-> [EmptyData EXCEPT !.kind = "absent"]]

NoPayload == EmptyObject

\* json.loads(raw_body or "{}") inside try/except: invalid JSON text and the empty body
\* give {}; any other body gives its parsed value, whatever its JSON type.
json_loads(body) ==
    IF body.kind \in {"unparseable", "empty"} THEN EmptyObject ELSE body

\* `x or {}` on a data / metadata value: falsy (missing, null) gives {}.
or_empty_data(d) == IF d.kind = "absent" THEN EmptyData ELSE d
or_empty_meta(m) == IF m.kind = "absent" THEN EmptyMeta ELSE m

\* `event_type or ""`
or_empty_str(s) == IF Truthy(s) THEN s ELSE ""

\* The event types of app.py 396 with the refund event beside them.
RecognizedTypes_with_refund ==
    {"order.paid", "charge.paid", "checkout.closed", "charge.refunded"}

RecognizedTypes == {"order.paid", "charge.paid", "checkout.closed"}

\* lines 421-427
novo_status_pedido(event_type) ==
    IF event_type \in {"order.paid", "charge.paid"} THEN "pago"
    ELSE IF event_type = "checkout.closed" THEN "cancelado"
    ELSE "desconhecido"

\* ================================================================ responses
\* The provider's JSON for a created link; its url is named after its id.
Link(id) == [id |-> id, url |-> id, status |-> "active"]
NoLink == [id |-> Absent, url |-> Absent, status |-> Absent]

\* An HTTP response: the status and the keys of its JSON body.  `item` is the item name an
\* error message ends with.
Resp(status, ok, error, item) ==
    [status |-> status, received |-> FALSE, ok |-> ok, error |-> error, item |-> item,
     checkout_url |-> Absent, payment_link_id |-> Absent, pagarme |-> NoLink]

\* jsonify({"received": True}), 200
Received == [Resp(200, Absent, Absent, Absent) EXCEPT !.received = TRUE]

\* An exception no except clause of the handler catches: Flask answers 500.
UnhandledException == Resp(500, Absent, "Internal Server Error", Absent)

\* ================================================================ webhook handler
\* lines 401-414: the update of table 'pagamentos'
webhook_pagamento(event_type, order_id, metadata, faults, db) ==
    LET payment_link_id == metadata.payment_link_id
        raised == "pagamentos.update" \in faults
    IN  IF Truthy(payment_link_id)
        THEN [raised |-> raised,
              calls |-> <<Call("atualizar_pagamento_por_payment_link", payment_link_id,
                               event_type, raised, NoPayload)>>,
              db |-> IF raised THEN db
                     ELSE [db EXCEPT !.pagamentos =
                              atualizar_pagamento_por_payment_link(
                                  @, payment_link_id, event_type,
                                  IF Truthy(order_id) THEN order_id ELSE Absent)]]
        ELSE IF Truthy(order_id)
        THEN [raised |-> raised,
              calls |-> <<Call("atualizar_pagamento_por_order_id", order_id, event_type,
                               raised, NoPayload)>>,
              db |-> IF raised THEN db
                     ELSE [db EXCEPT !.pagamentos =
                              atualizar_pagamento_por_order_id(@, order_id, event_type)]]
        ELSE [raised |-> FALSE, calls |-> <<>>, db |-> db]

\* lines 416-437: the update of tables 'pedidos_header' and 'pedidos', in its own try
webhook_pedido(event_type, order_id, metadata, faults, db) ==
    LET tipo == IF Truthy(metadata.tipo) THEN metadata.tipo ELSE metadata.tipo_assinatura
        numero_compra == metadata.numero_compra
        novo == novo_status_pedido(event_type)
        h_raised == "pedidos_header.update" \in faults
        i_raised == "pedidos.update" \in faults
        c_header == Call("atualizar_status_pedido", numero_compra, novo, h_raised, NoPayload)
        c_itens  == Call("marcar_itens_com_status", numero_compra, novo, i_raised, NoPayload)
    IN  IF ~(tipo = "pedido" /\ Truthy(numero_compra))
        THEN [calls |-> <<>>, db |-> db]
        ELSE IF h_raised
        THEN [calls |-> <<c_header>>, db |-> db]
        ELSE LET db1 == [db EXCEPT !.pedidos_header =
                            atualizar_status_pedido(@, numero_compra, novo, order_id)]
             IN  IF i_raised
                 THEN [calls |-> <<c_header, c_itens>>, db |-> db1]
                 ELSE [calls |-> <<c_header, c_itens>>,
                       db |-> [db1 EXCEPT !.pedidos =
                                  marcar_itens_com_status(@, numero_compra, novo)]]

\* lines 395-440: the outer try; any exception raised in it ends the processing
webhook_atualizar(event_type, data_obj, faults, db) ==
    IF event_type \notin RecognizedTypes THEN [calls |-> <<>>, db |-> db]
    ELSE IF data_obj.kind # "dict" THEN [calls |-> <<>>, db |-> db]         \* 397 raises
    ELSE LET order_id == data_obj.id
             metadata == or_empty_meta(data_obj.metadata)
         IN  IF metadata.kind # "dict" THEN [calls |-> <<>>, db |-> db]     \* 399 raises
             ELSE LET pay == webhook_pagamento(event_type, order_id, metadata, faults, db)
                  IN  IF pay.raised THEN [calls |-> pay.calls, db |-> pay.db]
                      ELSE LET ped == webhook_pedido(event_type, order_id, metadata,
                                                     faults, pay.db)
                           IN  [calls |-> pay.calls \o ped.calls, db |-> ped.db]

\* lines 377-442
webhook_pagarme(body, faults, db) ==
    LET payload == json_loads(body)
    IN  IF payload.kind # "object"
        THEN [db |-> db, resp |-> UnhandledException, calls |-> <<>>]       \* 385 raises
        ELSE LET event_type == payload.type
                 data_obj == or_empty_data(payload.data)
                 a_raised == "webhooks_pagarme.insert" \in faults
                 c_audit == Call("salvar_webhook_pagarme", or_empty_str(event_type),
                                 Absent, a_raised, payload)
                 db1 == IF a_raised THEN db
                        ELSE [db EXCEPT !.webhooks_pagarme =
                                 salvar_webhook_pagarme(@, or_empty_str(event_type), payload)]
                 upd == webhook_atualizar(event_type, data_obj, faults, db1)
             IN  [db |-> upd.db, resp |-> Received, calls |-> <<c_audit>> \o upd.calls]

\* ================================================================ rows
PagamentoRow(user_id, email, tipo, link, origem) ==
    [user_id |-> user_id, email |-> email, tipo |-> tipo,
     payment_link_id |-> link.id, checkout_url |-> link.url,
     pagarme_status |-> link.status, pagarme_raw |-> link,
     origem |-> IF Truthy(origem) THEN origem ELSE "checkout_site",
     order_id |-> Absent]

Cliente(nome, email) ==
    [nome |-> nome, email |-> email, cpf |-> Absent, telefone |-> Absent, endereco |-> Absent]

HeaderRow(numero_compra, total, cliente, status, transaction_id, checkout_url) ==
    [numero_compra |-> numero_compra, total |-> total, status |-> status,
     pagarme_transaction_id |-> transaction_id, pagarme_checkout_url |-> checkout_url,
     cliente_nome |-> cliente.nome, cliente_email |-> cliente.email,
     cliente_cpf |-> cliente.cpf, cliente_telefone |-> cliente.telefone,
     cliente_endereco |-> cliente.endereco]

\* preco: numeric column, as the store returns it.  kind "num" with the value in
\* thousandths of the major unit, "text" a string float() rejects, "absent" null.
Preco(mills) == [kind |-> "num", mills |-> mills]
PrecoTexto == [kind |-> "text", mills |-> 0]
PrecoAusente == [kind |-> "absent", mills |-> 0]

\* quantidade: kind "int" with its value, "text" a string int() rejects, "absent" null.
Qtd(n) == [kind |-> "int", n |-> n]
QtdTexto == [kind |-> "text", n |-> 0]
QtdAusente == [kind |-> "absent", n |-> 0]

ItemRow(id, numero_compra, prato, preco, quantidade, status, created_at) ==
    [id |-> id, numero_compra |-> numero_compra, prato |-> prato, preco |-> preco,
     quantidade |-> quantidade, status |-> status, created_at |-> created_at]

\* ================================================================ webhook deliveries
EventTypes == RecognizedTypes \cup {"charge.refunded", Absent}

MetaDicts ==
    { EmptyMeta,
      [EmptyMeta EXCEPT !.payment_link_id = "pl_1"],
      [EmptyMeta EXCEPT !.tipo = "pedido", !.numero_compra = "GC-1", !.origem = "pedido_marmita"],
      [EmptyMeta EXCEPT !.tipo = "pedido", !.numero_compra = "GC-2"],
      [EmptyMeta EXCEPT !.tipo = "pedido", !.numero_compra = "GC-1", !.payment_link_id = "pl_1"],
      [EmptyMeta EXCEPT !.tipo = "pedido"],
      [EmptyMeta EXCEPT !.tipo_assinatura = "membro", !.supabase_user_id = ""],
      [EmptyMeta EXCEPT !.tipo = "assinatura", !.numero_compra = "GC-1"] }

Metas == MetaDicts \cup { [EmptyMeta EXCEPT !.kind = "absent"], [EmptyMeta EXCEPT !.kind = "str"] }

Datas ==
    { [kind |-> "dict", id |-> i, metadata |-> m] : i \in {Absent, "or_1"}, m \in Metas }
    \cup { [EmptyData EXCEPT !.kind = "absent"], [EmptyData EXCEPT !.kind = "str"] }

\* Request bodies: invalid JSON text, the empty body, JSON that is no object, objects.
WebhookBodies ==
    { [EmptyObject EXCEPT !.kind = k] : k \in {"unparseable", "empty", "null", "list", "string"} }
    \cup { [kind |-> "object", type |-> t, data |-> d] : t \in EventTypes, d \in Datas }

\* The store calls of the webhook handler that may raise.
WebhookFaults == {"webhooks_pagarme.insert", "pagamentos.update",
                  "pedidos_header.update", "pedidos.update"}

\* ================================================================ store contents
EmptyDb == [pagamentos |-> <<>>, pedidos_header |-> {}, pedidos |-> {},
            webhooks_pagarme |-> <<>>]

DbA ==
    [pagamentos |-> << PagamentoRow("u1", "a@x", "membro", Link("pl_1"), Absent),
                       [PagamentoRow(Absent, "b@x", "restaurante", Link("pl_2"), "app")
                           EXCEPT !.order_id = "or_1"] >>,
     pedidos_header |-> { HeaderRow("GC-1", 2000, Cliente("Ana", "a@x"),
                                    "aguardando_pagamento", "pl_3", "pl_3"),
                          HeaderRow("GC-2", 700, Cliente("Bia", "b@x"),
                                    "aguardando_pagamento", "pl_4", "pl_4") },
     pedidos |-> { ItemRow(1, "GC-1", "A", Preco(5000), Qtd(2), "carrinho", 1),
                   ItemRow(2, "GC-1", "B", Preco(10000), Qtd(1), "carrinho", 2),
                   ItemRow(3, "GC-2", "C", Preco(7000), Qtd(1), "carrinho", 3) },
     webhooks_pagarme |-> <<>>]

DbB ==
    [pagamentos |-> << PagamentoRow("u1", "a@x", "membro", Link("pl_1"), Absent) >>,
     pedidos_header |-> { HeaderRow("GC-1", 2000, Cliente("Ana", "a@x"), "pago", "or_1", "pl_3"),
                          HeaderRow("GC-2", 700, Cliente("Bia", "b@x"), "cancelado", "pl_4", "pl_4") },
     pedidos |-> { ItemRow(1, "GC-1", "A", Preco(5000), Qtd(2), "pago", 1),
                   ItemRow(2, "GC-1", "B", Preco(10000), Qtd(1), "carrinho", 2),
                   ItemRow(3, "GC-2", "C", Preco(7000), Qtd(1), "cancelado", 3) },
     webhooks_pagarme |-> <<>>]

\* A request: the webhook's body (and the provider request whose metadata it echoes, 0
\* for none), or the JSON a checkout route was sent, or the arguments of a direct call.
NoReq == [body |-> EmptyObject, echo_of |-> 0]

InitWith(db) ==
    /\ pagamentos = db.pagamentos
    /\ pedidos_header = db.pedidos_header
    /\ pedidos = db.pedidos
    /\ webhooks_pagarme = db.webhooks_pagarme
    /\ http_log = <<>>
    /\ op = "none"
    /\ req = NoReq
    /\ resp = Resp(0, Absent, Absent, Absent)
    /\ calls = <<>>
    /\ n_req = 0
    /\ inflight = <<>>

SetDb(db) ==
    /\ pagamentos' = db.pagamentos
    /\ pedidos_header' = db.pedidos_header
    /\ pedidos' = db.pedidos
    /\ webhooks_pagarme' = db.webhooks_pagarme

\* One delivery of `body` to POST /webhook/pagarme, with the store calls in `faults` raising.
Webhook(body, echo_of) ==
    /\ \E faults \in SUBSET WebhookFaults :
          LET r == webhook_pagarme(body, faults, Db)
          IN  /\ SetDb(r.db)
              /\ op' = "webhook"
              /\ req' = [body |-> body, echo_of |-> echo_of]
              /\ resp' = r.resp
              /\ calls' = r.calls
    /\ n_req' = n_req + 1
    /\ UNCHANGED <<http_log, inflight>>

\* The webhook endpoint alone, over stores that hold payments and orders.
WebhookInit == \E db \in {EmptyDb, DbA, DbB} : InitWith(db)
WebhookNext == n_req < MaxDeliveries /\ \E body \in WebhookBodies : Webhook(body, 0)
WebhookSpec == WebhookInit /\ [][WebhookNext]_vars

\* ================================================================ strings
\* str.lower() and str.strip() on the strings the requests are drawn from.
Lower(s) ==
    CASE s = "MEMBRO" -> "membro"
      [] s = "Restaurante" -> "restaurante"
      [] OTHER -> s

Strip(s) ==
    CASE s = " a@x " -> "a@x"
      [] s = " GC-1 " -> "GC-1"
      [] s = "  " -> ""
      [] OTHER -> s

\* `(x or "")` on an optional string
or_str(s) == IF s = Absent THEN "" ELSE s

\* {**base, **extra}: a key present in extra replaces the one in base.
MetaKeys == {"payment_link_id", "tipo", "tipo_assinatura", "numero_compra",
             "supabase_user_id", "origem"}

dict_update(base, extra) ==
    [k \in DOMAIN base |-> IF k \in MetaKeys /\ extra[k] # Absent THEN extra[k] ELSE base[k]]

\* ================================================================ payment provider
\* The body of POST {PAGARME_BASE_URL}/paymentlinks.  The display name is kept as its
\* parts (the f-string's pieces).
PaymentLinkPayload(name, items, customer, metadata) ==
    [type |-> "order",
     name |-> name,
     is_building |-> FALSE,
     accepted_payment_methods |-> <<"credit_card", "boleto", "pix">>,
     operation_type |-> "auth_and_capture",
     interest_type |-> "simple",
     items |-> items,
     customer |-> customer,
     metadata |-> metadata]

CartItem(amount, name, default_quantity) ==
    [amount |-> amount, name |-> name, default_quantity |-> default_quantity]

NoRequest == PaymentLinkPayload(<<>>, <<>>, [name |-> Absent, email |-> Absent], EmptyMeta)

\* What a link builder does before any HTTP call: the payload, or the exception it raises.
Built(payload) == [raised |-> Absent, payload |-> payload]
Rejected(exc) == [raised |-> exc, payload |-> NoRequest]

\* app.py criar_link_pagamento, lines 74-116: validation and payload
app_payload_assinatura(tipo, email, nome, metadata_extra) ==
    LET t == Lower(or_str(tipo))
        meta == dict_update([EmptyMeta EXCEPT !.tipo_assinatura = t], metadata_extra)
        customer == [name |-> IF Truthy(nome) THEN nome ELSE email, email |-> email]
    IN  IF t = "restaurante"
        THEN Built(PaymentLinkPayload(<<"Assinatura Restaurante - Guia Cerrado", email>>,
                 <<CartItem(1, "Assinatura Restaurante - Guia Cerrado", 1)>>, customer, meta))
        ELSE IF t = "membro"
        THEN Built(PaymentLinkPayload(<<"Assinatura Membro - Guia Cerrado", email>>,
                 <<CartItem(1, "Assinatura Membro - Guia Cerrado", 1)>>, customer, meta))
        ELSE Rejected("ValueError")

\* pagarme_client.py 62-106 with the member price replaced by one priced per customer.
pc_payload_assinatura_per_customer(tipo, email, nome, metadata_extra) ==
    LET t == Lower(or_str(tipo))
        meta == dict_update([EmptyMeta EXCEPT !.tipo_assinatura = t], metadata_extra)
        customer == [name |-> IF Truthy(nome) THEN nome ELSE email, email |-> email]
    IN  IF t = "restaurante"
        THEN Built(PaymentLinkPayload(<<"Assinatura Restaurante - Guia Cerrado", email>>,
                 <<CartItem(10000, "Assinatura Restaurante - Guia Cerrado", 1)>>, customer, meta))
        ELSE IF t = "membro"
        THEN Built(PaymentLinkPayload(<<"Assinatura Membro - Guia Cerrado", email>>,
                 <<CartItem(IF email = "b@x" THEN 1999 ELSE 2999,
                            "Assinatura Membro - Guia Cerrado", 1)>>, customer, meta))
        ELSE Rejected("PagarmeError")

\* pagarme_client.py criar_link_pagamento, lines 62-106: validation and payload
pc_payload_assinatura(tipo, email, nome, metadata_extra) ==
    LET t == Lower(or_str(tipo))
        meta == dict_update([EmptyMeta EXCEPT !.tipo_assinatura = t], metadata_extra)
        customer == [name |-> IF Truthy(nome) THEN nome ELSE email, email |-> email]
    IN  IF t = "restaurante"
        THEN Built(PaymentLinkPayload(<<"Assinatura Restaurante - Guia Cerrado", email>>,
                 <<CartItem(10000, "Assinatura Restaurante - Guia Cerrado", 1)>>, customer, meta))
        ELSE IF t = "membro"
        THEN Built(PaymentLinkPayload(<<"Assinatura Membro - Guia Cerrado", email>>,
                 <<CartItem(2999, "Assinatura Membro - Guia Cerrado", 1)>>, customer, meta))
        ELSE Rejected("PagarmeError")

\* How the provider answers one POST: a link, a transport error, a status >= 400, or a
\* success status with a body that is no JSON.
ProviderOutcomes == {"ok", "network", "http_error", "bad_json"}

\* Identifiers the provider gives the links it creates, in order of creation.
NewLinkIds == <<"pl_101", "pl_102", "pl_103", "pl_104", "pl_105", "pl_106">>

\* The POST with a success status taken as a link whatever its body.
http_post_any_body(log, caller, payload, outcome) ==
    LET link == IF outcome = "ok" THEN Link(NewLinkIds[Len(log) + 1]) ELSE NoLink
    IN  [raised |-> IF outcome \in {"ok", "bad_json"} THEN Absent ELSE outcome,
         link |-> link,
         log |-> Append(log, [caller |-> caller, payload |-> payload,
                              outcome |-> outcome, link |-> link])]

\* requests.post(...) and the reading of its response: app.py 118-134,
\* pagarme_client.py 108-134 and 235-261.  `log` is the provider's request log.
http_post(log, caller, payload, outcome) ==
    LET link == IF outcome = "ok" THEN Link(NewLinkIds[Len(log) + 1]) ELSE NoLink
    IN  [raised |-> IF outcome = "ok" THEN Absent ELSE outcome,
         link |-> link,
         log |-> Append(log, [caller |-> caller, payload |-> payload,
                              outcome |-> outcome, link |-> link])]

\* A link function as a whole: an exception raised while building the payload ends it
\* before the POST.
post_if_built(built, log, caller, outcome) ==
    IF built.raised # Absent
    THEN [raised |-> built.raised, link |-> NoLink, log |-> log]
    ELSE http_post(log, caller, built.payload, outcome)

\* app.py 66-134: transport and JSON errors propagate as they are, a status >= 400
\* raises RuntimeError.
app_criar_link_pagamento(tipo, email, nome, metadata_extra, outcome, log) ==
    post_if_built(app_payload_assinatura(tipo, email, nome, metadata_extra),
                  log, "app.criar_link_pagamento", outcome)

\* pagarme_client.py 45-134: every failure is a PagarmeError.
pc_criar_link_pagamento(tipo, email, nome, metadata_extra, outcome, log) ==
    LET r == post_if_built(pc_payload_assinatura(tipo, email, nome, metadata_extra),
                           log, "pagarme_client.criar_link_pagamento", outcome)
    IN  [r EXCEPT !.raised = IF @ = Absent THEN Absent ELSE "PagarmeError"]

\* ================================================================ subscription checkout
\* A handler's outcome in which a store call that raised turns the answer into an error.
Handled_store_error_surfaces(db, log, r, cs) ==
    [db |-> db, log |-> log,
     resp |-> IF \E i \in DOMAIN cs : cs[i].raised
              THEN Resp(500, "false", "SupabaseError", Absent) ELSE r,
     calls |-> cs]

Handled(db, log, r, cs) == [db |-> db, log |-> log, resp |-> r, calls |-> cs]

\* supabase.table("pagamentos").insert(row), app.py 137-167
salvar_pagamento_supabase(tbl, user_id, email, tipo, pagarme_link, origem) ==
    Append(tbl, PagamentoRow(user_id, email, tipo, pagarme_link, origem))

\* app.py 198-249.  `outcome` is the provider's answer, `faults` the store calls that raise.
api_criar_checkout(data, outcome, faults, db, log) ==
    IF data.kind # "object"
    THEN Handled(db, log, Resp(400, "false", "JSON invalido", Absent), <<>>)
    ELSE
    LET tipo == Lower(or_str(data.tipo))
        email == Strip(or_str(data.email))
        nome == Strip(or_str(data.nome))
        user_id == data.user_id
        extra == data.extra
    IN  IF ~Truthy(email)
        THEN Handled(db, log, Resp(400, "false", "Campo 'email' e obrigatorio.", Absent), <<>>)
        ELSE IF tipo \notin {"restaurante", "membro"}
        THEN Handled(db, log,
                 Resp(400, "false", "Campo 'tipo' deve ser 'restaurante' ou 'membro'.", Absent),
                 <<>>)
        ELSE
        LET post == app_criar_link_pagamento(tipo, email, nome,
                        dict_update([EmptyMeta EXCEPT !.supabase_user_id = or_str(user_id)],
                                    extra),
                        outcome, log)
            raised == "pagamentos.insert" \in faults
            c == Call("salvar_pagamento_supabase", post.link.id, tipo, raised, NoPayload)
            db1 == IF raised THEN db
                   ELSE [db EXCEPT !.pagamentos =
                            salvar_pagamento_supabase(@, user_id, email, tipo,
                                                      post.link, data.origem)]
        IN  IF post.raised # Absent
            THEN Handled(db, post.log, Resp(502, "false", post.raised, Absent), <<>>)
            ELSE Handled(db1, post.log,
                     [Resp(200, "true", Absent, Absent) EXCEPT
                         !.checkout_url = post.link.url,
                         !.payment_link_id = post.link.id,
                         !.pagarme = post.link],
                     <<c>>)

\* ================================================================ cart checkout
\* select * from pedidos where numero_compra = ... and status = 'carrinho'
\* order by created_at asc, supabase_client.py 198-220
RECURSIVE order_by_created_at(_)
order_by_created_at(rows) ==
    IF rows = {} THEN <<>>
    ELSE LET first == CHOOSE r \in rows : \A o \in rows : r.created_at <= o.created_at
         IN  <<first>> \o order_by_created_at(rows \ {first})

\* The select without its status filter.
listar_itens_any_status(tbl, numero_compra) ==
    order_by_created_at({ r \in tbl : r.numero_compra = numero_compra })

listar_itens_carrinho(tbl, numero_compra) ==
    order_by_created_at({ r \in tbl : r.numero_compra = numero_compra /\ r.status = "carrinho" })

\* The write as a plain insert, with no conflict target.
upsert_pedido_header_insert(tbl, row) == tbl \cup {row}

\* upsert(row, on_conflict="numero_compra"), supabase_client.py 252-298
\* (numero_compra is the unique key the conflict target names: the row of that key is
\* replaced, column by column, by the row given)
upsert_pedido_header(tbl, row) ==
    { r \in tbl : r.numero_compra # row.numero_compra } \cup {row}

\* float() taken to accept every string.
preco_parseable_text(preco) == preco.kind \in {"num", "text"}

\* float(preco_raw) succeeds: app.py 304-307
preco_parseable(preco) == preco.kind = "num"

\* int(preco_float * 100): truncation in place of round().
amount_cents_truncated(preco) == preco.mills \div 10

\* int(round(preco_float * 100)), app.py 317.  Prices are in thousandths; round() takes a
\* tie to the even neighbour.
amount_cents_of(preco) ==
    LET q == preco.mills \div 10
        r == preco.mills % 10
    IN  IF r < 5 THEN q
        ELSE IF r > 5 THEN q + 1
        ELSE IF q % 2 = 0 THEN q ELSE q + 1

\* app.py 302 and 309-312 without the floor of 313-315.
quantidade_of_no_floor(quantidade_raw) ==
    IF quantidade_raw.kind # "int" THEN 1
    ELSE IF quantidade_raw.n = 0 THEN 1
    ELSE quantidade_raw.n

\* app.py 302 and 309-315: `or 1`, int() with fallback 1, and the floor of 1
quantidade_of(quantidade_raw) ==
    IF quantidade_raw.kind # "int" THEN 1
    ELSE IF quantidade_raw.n = 0 THEN 1
    ELSE IF quantidade_raw.n <= 0 THEN 1
    ELSE quantidade_raw.n

PagarmeItem(name, amount_cents, quantity) ==
    [name |-> name, amount_cents |-> amount_cents, quantity |-> quantity]

\* The loop of app.py 296-326 over the rows not yet visited: `invalid` is the item whose
\* price stopped it (the handler returns 500 there), Absent when it ran to the end.
RECURSIVE montar_itens(_, _, _)
montar_itens(rows, itens_pagarme, total_cents) ==
    IF rows = <<>>
    THEN [invalid |-> Absent, itens |-> itens_pagarme, total_cents |-> total_cents]
    ELSE LET row == Head(rows)
             prato == IF Truthy(row.prato) THEN row.prato ELSE "Item"
             quantidade == quantidade_of(row.quantidade)
             amount_cents == amount_cents_of(row.preco)
         IN  IF ~preco_parseable(row.preco)
             THEN [invalid |-> prato, itens |-> itens_pagarme, total_cents |-> total_cents]
             ELSE montar_itens(Tail(rows),
                               Append(itens_pagarme, PagarmeItem(prato, amount_cents, quantidade)),
                               total_cents + amount_cents * quantidade)

\* `int(item.get("quantity", 1) or 1)`, pagarme_client.py 178
quantity_or_1(quantity) == IF quantity = 0 THEN 1 ELSE quantity

\* pagarme_client.py 168-233: validation and payload of an order link
payload_pedido(numero_compra, itens, cliente, metadata_extra) ==
    LET valid(item) == /\ Truthy(item.name)
                       /\ item.amount_cents > 0
                       /\ quantity_or_1(item.quantity) > 0
        cart_items == [i \in DOMAIN itens |->
                          CartItem(itens[i].amount_cents, itens[i].name,
                                   quantity_or_1(itens[i].quantity))]
        nome_cliente == IF Truthy(cliente.nome) THEN cliente.nome
                        ELSE IF Truthy(cliente.email) THEN cliente.email ELSE "Cliente"
        metadata == dict_update([EmptyMeta EXCEPT !.tipo = "pedido",
                                                  !.numero_compra = numero_compra],
                                metadata_extra)
    IN  IF itens = <<>> THEN Rejected("PagarmeError")
        ELSE IF \E i \in DOMAIN itens : ~valid(itens[i]) THEN Rejected("PagarmeError")
        ELSE IF ~Truthy(cliente.email) THEN Rejected("PagarmeError")
        ELSE Built(PaymentLinkPayload(<<"Pedido", numero_compra>>, cart_items,
                       [name |-> nome_cliente, email |-> cliente.email], metadata))

\* pagarme_client.py 141-261
criar_link_pagamento_pedido(numero_compra, itens, cliente, metadata_extra, outcome, log) ==
    LET r == post_if_built(payload_pedido(numero_compra, itens, cliente, metadata_extra),
                           log, "criar_link_pagamento_pedido", outcome)
    IN  [r EXCEPT !.raised = IF @ = Absent THEN Absent ELSE "PagarmeError"]

NoCliente == Cliente(Absent, Absent)

\* app.py 257-370
api_pedidos_checkout(data, outcome, faults, db, log) ==
    IF data.kind # "object"
    THEN Handled(db, log, Resp(400, "false", "JSON invalido", Absent), <<>>)
    ELSE
    LET numero_compra == Strip(or_str(data.numero_compra))
        cliente == IF data.cliente.kind = "dict" THEN data.cliente.c ELSE NoCliente
        s_raised == "pedidos.select" \in faults
        c_select == Call("listar_itens_carrinho", numero_compra, Absent, s_raised, NoPayload)
        itens_carrinho == listar_itens_carrinho(db.pedidos, numero_compra)
        m == montar_itens(itens_carrinho, <<>>, 0)
        post == criar_link_pagamento_pedido(numero_compra, m.itens, cliente,
                    [EmptyMeta EXCEPT !.origem = "pedido_marmita"], outcome, log)
        u_raised == "pedidos_header.upsert" \in faults
        c_upsert == Call("upsert_pedido_header", numero_compra, "aguardando_pagamento",
                         u_raised, NoPayload)
        \* total_reais = total_cents / 100.0 (app.py 328): the header's total is kept
        \* here in hundredths of the major unit.
        db1 == IF u_raised THEN db
               ELSE [db EXCEPT !.pedidos_header =
                        upsert_pedido_header(@,
                            HeaderRow(numero_compra, m.total_cents, cliente,
                                      "aguardando_pagamento", post.link.id, post.link.url))]
    IN  IF ~Truthy(numero_compra)
        THEN Handled(db, log, Resp(400, "false", "numero_compra e obrigatorio.", Absent), <<>>)
        ELSE IF ~Truthy(cliente.email)
        THEN Handled(db, log, Resp(400, "false", "email do cliente e obrigatorio.", Absent), <<>>)
        ELSE IF s_raised
        THEN Handled(db, log, Resp(500, "false", "Erro ao buscar carrinho", Absent), <<c_select>>)
        ELSE IF itens_carrinho = <<>>
        THEN Handled(db, log,
                 Resp(400, "false", "Carrinho vazio para este numero de compra.", Absent),
                 <<c_select>>)
        ELSE IF m.invalid # Absent
        THEN Handled(db, log, Resp(500, "false", "Preco invalido para o item", m.invalid),
                     <<c_select>>)
        ELSE IF post.raised # Absent
        THEN Handled(db, post.log, Resp(502, "false", post.raised, Absent), <<c_select>>)
        ELSE Handled(db1, post.log,
                 [Resp(200, "true", Absent, Absent) EXCEPT
                     !.checkout_url = post.link.url, !.pagarme = post.link],
                 <<c_select, c_upsert>>)

\* ================================================================ requests and actions
SetHandled(name, request, r) ==
    /\ SetDb(r.db)
    /\ http_log' = r.log
    /\ op' = name
    /\ req' = request
    /\ resp' = r.resp
    /\ calls' = r.calls
    /\ n_req' = n_req + 1
    /\ UNCHANGED inflight

\* One POST /api/criar-checkout.  A store call can only fail where it is made, after the
\* provider answered with a link.
CriarCheckout(data) ==
    \E outcome \in ProviderOutcomes, faults \in SUBSET {"pagamentos.insert"} :
        /\ faults # {} => outcome = "ok"
        /\ SetHandled("criar_checkout", [data |-> data],
                      api_criar_checkout(data, outcome, faults, Db, http_log))

\* One POST /api/pedidos/checkout.  The read raising ends the request before the provider
\* is called; the header upsert is made only after the provider answered with a link.
PedidosCheckout(data) ==
    \E outcome \in ProviderOutcomes,
       faults \in {{}, {"pedidos.select"}, {"pedidos_header.upsert"}} :
        /\ faults # {} => outcome = "ok"
        /\ SetHandled("pedidos_checkout", [data |-> data],
                      api_pedidos_checkout(data, outcome, faults, Db, http_log))

\* The provider notifies about a link it created: the event carries, as data.metadata,
\* the metadata of the request that created the link, and the provider's order id.
WebhookEcho ==
    \E i \in DOMAIN http_log, t \in RecognizedTypes \cup {"charge.refunded"},
       id \in {Absent, "or_1"} :
        /\ http_log[i].outcome = "ok"
        /\ Webhook([kind |-> "object", type |-> t,
                    data |-> [kind |-> "dict", id |-> id,
                              metadata |-> http_log[i].payload.metadata]], i)

\* A direct call of one of the two subscription link functions.
CallCriarLink(impl, a) ==
    \E outcome \in {"ok", "network"} :
        LET r == IF impl = "app"
                 THEN app_criar_link_pagamento(a.tipo, a.email, a.nome, a.extra,
                                               outcome, http_log)
                 ELSE pc_criar_link_pagamento(a.tipo, a.email, a.nome, a.extra,
                                              outcome, http_log)
        IN  /\ http_log' = r.log
            /\ op' = IF impl = "app" THEN "app.criar_link_pagamento"
                     ELSE "pagarme_client.criar_link_pagamento"
            /\ req' = [args |-> a]
            /\ resp' = [Resp(0, Absent, r.raised, Absent) EXCEPT !.pagarme = r.link]
            /\ calls' = <<>>
            /\ n_req' = n_req + 1
            /\ UNCHANGED <<pagamentos, pedidos_header, pedidos, webhooks_pagarme, inflight>>

\* Caller-supplied extra metadata of a subscription checkout.
Extras ==
    { EmptyMeta,
      [EmptyMeta EXCEPT !.tipo_assinatura = "vip"],
      [EmptyMeta EXCEPT !.tipo = "pedido", !.numero_compra = "GC-1"] }

AssinaturaData(tipo, email, nome, user_id, extra, origem) ==
    [kind |-> "object", tipo |-> tipo, email |-> email, nome |-> nome,
     user_id |-> user_id, extra |-> extra, origem |-> origem]

InvalidJson == [AssinaturaData(Absent, Absent, Absent, Absent, EmptyMeta, Absent)
                   EXCEPT !.kind = "invalid"]

Tipos == {"membro", "MEMBRO", "restaurante", "Restaurante", "vip", Absent}

AssinaturaDatas ==
    { AssinaturaData(t, e, who[1], who[2], x, Absent) :
        t \in Tipos, e \in {"a@x", "b@x"},
        who \in {<<"Ana", "u1">>, <<Absent, Absent>>}, x \in Extras }
    \cup { AssinaturaData("membro", Absent, "Ana", "u1", EmptyMeta, Absent),
           AssinaturaData("membro", "  ", "Ana", "u1", EmptyMeta, Absent),
           InvalidJson }

PedidoData(numero_compra, cliente) ==
    [kind |-> "object", numero_compra |-> numero_compra, cliente |-> cliente]

ClienteDict(c) == [kind |-> "dict", c |-> c]
ClienteAbsent == [kind |-> "absent", c |-> NoCliente]

\* ---------------------------------------------------------------- Spec
\* The three routes together, over a few requests each.
SmallAssinaturaDatas ==
    { AssinaturaData("membro", "a@x", "Ana", "u1", EmptyMeta, Absent),
      AssinaturaData("Restaurante", "b@x", Absent, Absent,
                     [EmptyMeta EXCEPT !.origem = "campanha"], "app"),
      AssinaturaData("vip", "a@x", "Ana", "u1", EmptyMeta, Absent) }

SmallPedidoDatas ==
    { PedidoData("GC-1", ClienteDict(Cliente("Ana", "a@x"))),
      PedidoData("GC-2", ClienteDict([Cliente("Bia", "b@x") EXCEPT !.cpf = "123"])),
      PedidoData("GC-1", ClienteAbsent) }

Init == \E db \in {EmptyDb, DbA, DbB} : InitWith(db)

SomeCriarCheckout == n_req < MaxReq /\ \E data \in SmallAssinaturaDatas : CriarCheckout(data)
SomePedidosCheckout == n_req < MaxReq /\ \E data \in SmallPedidoDatas : PedidosCheckout(data)
SomeWebhookEcho == n_req < MaxReq /\ WebhookEcho

Next == SomeCriarCheckout \/ SomePedidosCheckout \/ SomeWebhookEcho

Spec == Init /\ [][Next]_vars

\* ---------------------------------------------------------------- AssinaturaSpec
\* The subscription route, and the two link functions called directly, over every
\* combination of their inputs.
LinkArgs ==
    [tipo : Tipos, email : {"a@x", "b@x"}, nome : {"Ana", Absent}, extra : Extras]

AssinaturaInit == InitWith(DbA)
AnyCriarCheckout == n_req < MaxCheckouts /\ \E data \in AssinaturaDatas : CriarCheckout(data)
AnyCallCriarLink ==
    n_req < MaxCheckouts /\ \E impl \in {"app", "pagarme_client"}, a \in LinkArgs :
                                CallCriarLink(impl, a)
AssinaturaNext == AnyCriarCheckout \/ AnyCallCriarLink
AssinaturaSpec == AssinaturaInit /\ [][AssinaturaNext]_vars

\* ---------------------------------------------------------------- PedidoSpec
\* The cart route over carts of up to MaxItens line items of purchase reference GC-1,
\* each with any price and quantity the store can return.
Precos == {Preco(5000), Preco(10000), Preco(2996), Preco(0), PrecoTexto, PrecoAusente}
Qtds == {Qtd(2), Qtd(1), Qtd(0), Qtd(-3), QtdTexto, QtdAusente}
Pratos == <<"A", "B", "C", "D", "E">>

\* Price and quantity of a line item: every price with a plain quantity, every quantity
\* with a plain price, and some pairs where both are unusual.
PrecoQtds ==
    { <<p, Qtd(2)>> : p \in Precos }
    \cup { <<Preco(5000), q>> : q \in Qtds }
    \cup { <<Preco(10000), Qtd(1)>>, <<Preco(2996), Qtd(-3)>>,
           <<Preco(0), QtdTexto>>, <<PrecoTexto, QtdAusente>> }

\* The line items a cart position may hold; created_at runs against id.
CartRows(k) ==
    { ItemRow(10 - k, "GC-1", Pratos[k], pq[1], pq[2], "carrinho", k) : pq \in PrecoQtds }
    \cup { ItemRow(10 - k, "GC-1", Absent, PrecoTexto, Qtd(1), "carrinho", k),
           ItemRow(10 - k, "GC-1", Pratos[k], Preco(5000), Qtd(1), "pago", k),
           ItemRow(10 - k, "GC-1", Pratos[k], Preco(5000), Qtd(1), "cancelado", k) }

RECURSIVE Carts(_)
Carts(n) ==
    IF n = 0 THEN {{}}
    ELSE LET smaller == Carts(n - 1)
         IN  smaller \cup { c \cup {r} : c \in { s \in smaller : Cardinality(s) = n - 1 },
                                         r \in CartRows(n) }

PedidoDatas ==
    { PedidoData("GC-1", ClienteDict(Cliente("Ana", "a@x"))),
      PedidoData(" GC-1 ", ClienteDict(Cliente(Absent, "a@x"))),
      PedidoData("GC-2", ClienteDict(Cliente("Ana", "a@x"))) }

PedidoInit == \E cart \in Carts(MaxItens) : InitWith([EmptyDb EXCEPT !.pedidos = cart])
PedidoNext == n_req < MaxCheckouts /\ \E data \in PedidoDatas : PedidosCheckout(data)
PedidoSpec == PedidoInit /\ [][PedidoNext]_vars

\* ================================================================ properties
\* What the claims call things, in the vocabulary of a request and its observation.
PaidOrClosed == {"order.paid", "charge.paid", "checkout.closed"}

IsObjectBody(b) == b.kind = "object"

\* An event whose metadata is an object carrying tipo == "pedido" and a purchase reference.
IsOrderFlowEvent(b) ==
    /\ b.kind = "object"
    /\ b.type \in PaidOrClosed
    /\ b.data.kind = "dict"
    /\ b.data.metadata.kind = "dict"
    /\ b.data.metadata.tipo = "pedido"
    /\ Truthy(b.data.metadata.numero_compra)

PagamentoFns == {"atualizar_pagamento_por_payment_link", "atualizar_pagamento_por_order_id"}
PedidoFns == {"atualizar_status_pedido", "marcar_itens_com_status"}

Attempted(fns) == \E i \in DOMAIN calls : calls[i].fn \in fns
Raised(fns) == \E i \in DOMAIN calls : calls[i].fn \in fns /\ calls[i].raised
AttemptedFor(fn, key) == \E i \in DOMAIN calls : calls[i].fn = fn /\ calls[i].key = key

\* C1: every delivery to the webhook endpoint, whatever its body and whatever store
\* calls fail, is answered 200 {received: true}.
C1_AlwaysAcknowledged ==
    op = "webhook" => resp = Received

\* C2: for a recognized order-flow event for purchase reference X, a store error in the
\* payment-record update does not keep the order update for X from being attempted, and a
\* store error in the order update leaves the payment-record update attempted.
C2_UpdatesIndependent ==
    (op = "webhook" /\ IsOrderFlowEvent(req.body)) =>
        LET X == req.body.data.metadata.numero_compra
            hasPaymentKey == \/ Truthy(req.body.data.metadata.payment_link_id)
                             \/ Truthy(req.body.data.id)
        IN  /\ Raised(PagamentoFns) => AttemptedFor("atualizar_status_pedido", X)
            /\ (Raised(PedidoFns) /\ hasPaymentKey) => Attempted(PagamentoFns)

\* C3: when the metadata that the subscription link creation sent to the provider comes
\* back as data.metadata of a recognized event, and no store call fails, the payment
\* record that creation stored for the link has the event's type as its status.
C3_SubscriptionRoundTrip ==
    (/\ op = "webhook"
     /\ req.echo_of # 0
     /\ req.body.type \in PaidOrClosed
     /\ http_log[req.echo_of].caller = "app.criar_link_pagamento"
     /\ \A i \in DOMAIN calls : ~calls[i].raised
     /\ \E i \in DOMAIN pagamentos :
            pagamentos[i].payment_link_id = http_log[req.echo_of].link.id)
    => \A i \in DOMAIN pagamentos :
            pagamentos[i].payment_link_id = http_log[req.echo_of].link.id
                => pagamentos[i].pagarme_status = req.body.type

\* Status a recognized event type stands for, in the claims' words.
StatusOfType(t) == IF t = "checkout.closed" THEN "cancelado" ELSE "pago"

\* C4: a recognized event with tipo == "pedido" and numero_compra == X, none of whose
\* order-table writes raised, leaves the header of X and every line item of X with the
\* status of its type ("pago" for order.paid and charge.paid, "cancelado" for
\* checkout.closed).
C4_OrderStatusSet ==
    (op = "webhook" /\ IsOrderFlowEvent(req.body) /\ ~Raised(PedidoFns)) =>
        LET X == req.body.data.metadata.numero_compra
            st == StatusOfType(req.body.type)
        IN  /\ \A h \in pedidos_header : h.numero_compra = X => h.status = st
            /\ \A r \in pedidos : r.numero_compra = X => r.status = st

\* The case of C5: a body that is no JSON at all (or empty), or an event object whose type
\* is none of order.paid, charge.paid, checkout.closed.
IsIgnoredDelivery(b) ==
    \/ b.kind \in {"unparseable", "empty"}
    \/ b.kind = "object" /\ b.type \notin PaidOrClosed

\* C5: such a delivery attempts exactly one store call, the audit insert (with the event
\* type, or "" when it has none, and the parsed payload, {} for an unparseable body), is
\* answered 200 {received: true}, and changes no payment record, order header or line
\* item; the audit log gains that one row unless the insert failed.
C5_IgnoredDeliveryOnlyAudited ==
    [][ (op' = "webhook" /\ IsIgnoredDelivery(req'.body)) =>
          LET b == req'.body
              payload == IF b.kind = "object" THEN b ELSE EmptyObject
              type == IF b.kind = "object" /\ Truthy(b.type) THEN b.type ELSE ""
          IN  /\ Len(calls') = 1
              /\ calls'[1].fn = "salvar_webhook_pagarme"
              /\ calls'[1].key = type
              /\ calls'[1].payload = payload
              /\ resp' = Received
              /\ pagamentos' = pagamentos
              /\ pedidos_header' = pedidos_header
              /\ pedidos' = pedidos
              /\ webhooks_pagarme' =
                    IF calls'[1].raised THEN webhooks_pagarme
                    ELSE Append(webhooks_pagarme, [event_type |-> type, payload |-> payload])
      ]_vars

\* An unrecognized event that names a payment link and an order, audited over a store
\* that holds that payment and that order.
C5_Witness ==
    /\ op = "webhook"
    /\ req.body.kind = "object"
    /\ req.body.type = "charge.refunded"
    /\ req.body.data.kind = "dict"
    /\ req.body.data.metadata.kind = "dict"
    /\ req.body.data.metadata.tipo = "pedido"
    /\ req.body.data.metadata.numero_compra = "GC-1"
    /\ req.body.data.metadata.payment_link_id = "pl_1"
    /\ Len(webhooks_pagarme) = 1
    /\ \E i \in DOMAIN pagamentos : pagamentos[i].payment_link_id = "pl_1"
    /\ \E h \in pedidos_header : h.numero_compra = "GC-1"

\* ---------------------------------------------------------------- subscription links
SubscriptionKinds == {"membro", "restaurante"}

\* The kind a request names, compared without regard to case.
KindOf(tipo) == Lower(or_str(tipo))

LinkFns == {"app.criar_link_pagamento", "pagarme_client.criar_link_pagamento"}

\* The payload either link function builds for the given arguments.
PayloadOf(caller, a) ==
    IF caller = "app.criar_link_pagamento"
    THEN app_payload_assinatura(a.tipo, a.email, a.nome, a.extra).payload
    ELSE pc_payload_assinatura(a.tipo, a.email, a.nome, a.extra).payload

\* C6: the items of a subscription link (amount, name, quantity) depend only on the
\* kind, "membro" or "restaurante" whatever its case: the request a link function sends
\* carries the items that function builds for every other email, name and extra metadata
\* with the same kind.  For any other kind a link function raises and sends nothing, and
\* the route answers 400, sends nothing and stores no payment record.
C6_ChargeDependsOnKindOnly ==
    [][ /\ (op' = "criar_checkout" /\ req'.data.kind = "object"
                /\ KindOf(req'.data.tipo) \notin SubscriptionKinds)
            => /\ resp'.status = 400
               /\ http_log' = http_log
               /\ pagamentos' = pagamentos
        /\ (op' \in LinkFns /\ KindOf(req'.args.tipo) \notin SubscriptionKinds)
            => /\ resp'.error \in {"ValueError", "PagarmeError"}
               /\ http_log' = http_log
        /\ (op' \in LinkFns \cup {"criar_checkout"} /\ Len(http_log') = Len(http_log) + 1)
            => LET sent == http_log'[Len(http_log')]
                   kind == IF op' = "criar_checkout" THEN KindOf(req'.data.tipo)
                           ELSE KindOf(req'.args.tipo)
               IN  /\ kind \in SubscriptionKinds
                   /\ Len(sent.payload.items) = 1
                   /\ \A a \in LinkArgs :
                        KindOf(a.tipo) = kind =>
                            PayloadOf(sent.caller, a).items = sent.payload.items
      ]_vars

\* A member checkout in capitals, for the second customer, with extra metadata that
\* names another kind: its link was requested.
C6_Witness ==
    /\ op = "criar_checkout"
    /\ req.data.tipo = "MEMBRO"
    /\ req.data.email = "b@x"
    /\ req.data.extra.tipo_assinatura = "vip"
    /\ Len(http_log) = 1
    /\ http_log[1].payload.items[1].name = "Assinatura Membro - Guia Cerrado"
    /\ resp.status = 200

\* ---------------------------------------------------------------- cart checkout
\* The cart of purchase reference X: its line items with status 'carrinho', oldest first.
CartOf(X) ==
    order_by_created_at({ r \in pedidos : r.numero_compra = X /\ r.status = "carrinho" })

\* The purchase reference a cart checkout names.
ReferenceOf(data) == Strip(or_str(data.numero_compra))

\* The checkout read the cart: its select was issued and returned.
CartLoaded(cs) ==
    \E i \in DOMAIN cs : cs[i].fn = "listar_itens_carrinho" /\ ~cs[i].raised

HeaderWritten(cs) ==
    \E i \in DOMAIN cs : cs[i].fn = "upsert_pedido_header" /\ ~cs[i].raised

PriceParses(row) == row.preco.kind = "num"

\* Unit amount of a row in minor units: its price times 100, to the nearest unit.
UnitAmount(row) == (row.preco.mills + 5) \div 10

BadQuantity(row) == row.quantidade.kind # "int" \/ row.quantidade.n <= 0

CoercedQuantity(row) == IF BadQuantity(row) THEN 1 ELSE row.quantidade.n

NameOf(row) == IF Truthy(row.prato) THEN row.prato ELSE "Item"

RECURSIVE TotalOf(_)
TotalOf(rows) ==
    IF rows = <<>> THEN 0
    ELSE UnitAmount(Head(rows)) * CoercedQuantity(Head(rows)) + TotalOf(Tail(rows))

RECURSIVE EntriesTotal(_)
EntriesTotal(items) ==
    IF items = <<>> THEN 0
    ELSE Head(items).amount * Head(items).default_quantity + EntriesTotal(Tail(items))

\* C7: when a cart checkout sends its request to the provider, the cart is not empty and
\* the request has one entry per cart row, in cart order, with the row's name, unit
\* amount and coerced quantity; the sum of amount x quantity over the entries equals the
\* sum of unit amount x coerced quantity over the rows, and that sum is the total the
\* checkout writes to the order header.  Two rows 5.00 x 2 and 10.00 x 1 give 2000.
C7_TotalIsSumOfEntries ==
    [][ (op' = "pedidos_checkout" /\ Len(http_log') = Len(http_log) + 1) =>
          LET X == ReferenceOf(req'.data)
              rows == CartOf(X)
              items == http_log'[Len(http_log')].payload.items
          IN  /\ rows # <<>>
              /\ \A i \in DOMAIN rows : PriceParses(rows[i])
              /\ Len(items) = Len(rows)
              /\ \A i \in DOMAIN rows :
                    items[i] = CartItem(UnitAmount(rows[i]), NameOf(rows[i]),
                                        CoercedQuantity(rows[i]))
              /\ EntriesTotal(items) = TotalOf(rows)
              /\ HeaderWritten(calls') =>
                    \E h \in pedidos_header' :
                        h.numero_compra = X /\ h.total = TotalOf(rows)
              /\ (/\ Len(rows) = 2
                  /\ rows[1].preco = Preco(5000) /\ rows[1].quantidade = Qtd(2)
                  /\ rows[2].preco = Preco(10000) /\ rows[2].quantidade = Qtd(1))
                    => EntriesTotal(items) = 2000
      ]_vars

\* The cart of two rows, 5.00 x 2 and 10.00 x 1, checked out: two entries, total 2000.
C7_Witness ==
    /\ op = "pedidos_checkout"
    /\ Len(http_log) = 1
    /\ Len(http_log[1].payload.items) = 2
    /\ http_log[1].payload.items[1] = CartItem(500, "A", 2)
    /\ http_log[1].payload.items[2] = CartItem(1000, "B", 1)
    /\ \E h \in pedidos_header : h.numero_compra = "GC-1" /\ h.total = 2000

\* The case of C8: a cart checkout (a JSON object naming a purchase reference) for a
\* reference that has no line item with status 'carrinho'.
IsEmptyCartCheckout(name, request) ==
    /\ name = "pedidos_checkout"
    /\ request.data.kind = "object"
    /\ Truthy(ReferenceOf(request.data))
    /\ ~\E r \in pedidos : r.numero_compra = ReferenceOf(request.data) /\ r.status = "carrinho"

\* C8 as stated: such a checkout is answered 400, sends nothing to the provider and
\* writes no order header.
C8_EmptyCartIs400 ==
    [][ IsEmptyCartCheckout(op', req') =>
          /\ resp'.status = 400
          /\ http_log' = http_log
          /\ pedidos_header' = pedidos_header
      ]_vars

\* C8: such a checkout is answered 400, or 500 when the read of the cart itself raised
\* a store error; either way it sends nothing to the provider and writes no order header.
C8_EmptyCartFails ==
    [][ IsEmptyCartCheckout(op', req') =>
          /\ resp'.status =
                IF \E i \in DOMAIN calls' :
                       calls'[i].fn = "listar_itens_carrinho" /\ calls'[i].raised
                THEN 500 ELSE 400
          /\ resp'.ok = "false"
          /\ http_log' = http_log
          /\ pedidos_header' = pedidos_header
      ]_vars

\* A checkout of a reference whose only line items are already paid: read, then refused.
C8_Witness ==
    /\ op = "pedidos_checkout"
    /\ ReferenceOf(req.data) = "GC-1"
    /\ \E r \in pedidos : r.numero_compra = "GC-1" /\ r.status = "pago"
    /\ ~\E r \in pedidos : r.numero_compra = "GC-1" /\ r.status = "carrinho"
    /\ CartLoaded(calls)
    /\ resp.status = 400

\* C9: when the cart a checkout loaded has a row whose price cannot be parsed as a number
\* or is missing, the checkout is answered with an error that names the first such row's
\* item, sends nothing to the provider and writes no order header, however many other
\* rows are valid.
C9_BadPriceFailsWholeCheckout ==
    [][ (op' = "pedidos_checkout" /\ CartLoaded(calls')) =>
          LET rows == CartOf(ReferenceOf(req'.data))
              bad == { i \in DOMAIN rows : ~PriceParses(rows[i]) }
          IN  bad # {} =>
                /\ resp'.status = 500
                /\ resp'.ok = "false"
                /\ resp'.error = "Preco invalido para o item"
                /\ resp'.item = NameOf(rows[CHOOSE i \in bad : \A j \in bad : i <= j])
                /\ http_log' = http_log
                /\ pedidos_header' = pedidos_header
      ]_vars

\* A valid first row followed by one whose price is no number: the error names the second.
C9_Witness ==
    /\ op = "pedidos_checkout"
    /\ CartLoaded(calls)
    /\ Len(CartOf("GC-1")) = 2
    /\ CartOf("GC-1")[1].preco = Preco(5000)
    /\ CartOf("GC-1")[2].preco = PrecoTexto
    /\ resp.item = "B"
    /\ http_log = <<>>

\* C10: in a checkout that loaded a non-empty cart whose prices all parse to a positive
\* amount, a row whose quantity is missing, no integer, or <= 0 is not a reason to refuse:
\* the request to the provider is sent, the row's entry has quantity 1, and the row counts
\* one unit amount in the total sent and in the total written to the order header.
C10_BadQuantityIsOne ==
    [][ (op' = "pedidos_checkout" /\ CartLoaded(calls')) =>
          LET X == ReferenceOf(req'.data)
              rows == CartOf(X)
              items == http_log'[Len(http_log')].payload.items
          IN  (/\ rows # <<>>
               /\ \A i \in DOMAIN rows : PriceParses(rows[i]) /\ UnitAmount(rows[i]) > 0)
              => /\ Len(http_log') = Len(http_log) + 1
                 /\ resp'.status \in {200, 502}
                 /\ Len(items) = Len(rows)
                 /\ \A i \in DOMAIN rows :
                        BadQuantity(rows[i]) =>
                            /\ items[i].default_quantity = 1
                            /\ items[i].amount = UnitAmount(rows[i])
                 /\ EntriesTotal(items) = TotalOf(rows)
                 /\ HeaderWritten(calls') =>
                        \E h \in pedidos_header' : h.numero_compra = X /\ h.total = TotalOf(rows)
      ]_vars

\* A row of quantity -3 and a row of quantity 2, both 5.00: the link was created and the
\* first row was sent with quantity 1.
C10_Witness ==
    /\ op = "pedidos_checkout"
    /\ resp.status = 200
    /\ Len(http_log) = 1
    /\ Len(CartOf("GC-1")) = 2
    /\ CartOf("GC-1")[1].quantidade = Qtd(-3)
    /\ CartOf("GC-1")[2].quantidade = Qtd(2)
    /\ http_log[1].payload.items[1] = CartItem(500, "A", 1)
    /\ http_log[1].payload.items[2] = CartItem(500, "B", 2)

\* ================================================================ order link, called directly
\* A key of an item dict that holds an int, or is missing.
IntKey(n) == [kind |-> "int", n |-> n]
NoKey == [kind |-> "absent", n |-> 0]

\* dict.get(key, default) on such a key
dict_get(v, default) == IF v.kind = "absent" THEN default ELSE v.n

\* An item as the caller passes it: {"name": ..., "amount_cents": ..., "quantity": ...}
ItemDict(name, amount_cents, quantity) ==
    [name |-> name, amount_cents |-> amount_cents, quantity |-> quantity]

\* item.get("name"), item.get("amount_cents", 0), item.get("quantity", 1):
\* pagarme_client.py 176-178, before int() and `or 1`
item_get(item) ==
    PagarmeItem(item.name, dict_get(item.amount_cents, 0), dict_get(item.quantity, 1))

\* One call of pagarme_client.criar_link_pagamento_pedido
CallCriarLinkPedido(a) ==
    \E outcome \in ProviderOutcomes :
        LET itens == [i \in DOMAIN a.itens |-> item_get(a.itens[i])]
            r == criar_link_pagamento_pedido(a.numero_compra, itens, a.cliente, a.extra,
                                             outcome, http_log)
        IN  /\ http_log' = r.log
            /\ op' = "criar_link_pagamento_pedido"
            /\ req' = [args |-> a]
            /\ resp' = [Resp(0, Absent, r.raised, Absent) EXCEPT !.pagarme = r.link]
            /\ calls' = <<>>
            /\ n_req' = n_req + 1
            /\ UNCHANGED <<pagamentos, pedidos_header, pedidos, webhooks_pagarme, inflight>>

\* ---------------------------------------------------------------- LinkPedidoSpec
ItemDicts ==
    { ItemDict("A", IntKey(500), IntKey(2)),
      ItemDict(Absent, IntKey(500), IntKey(1)),
      ItemDict("B", IntKey(0), IntKey(1)),
      ItemDict("B", NoKey, IntKey(1)),
      ItemDict("A", IntKey(500), IntKey(0)),
      ItemDict("A", IntKey(500), IntKey(-3)),
      ItemDict("A", IntKey(500), NoKey) }

RECURSIVE ItemLists(_)
ItemLists(n) ==
    IF n = 0 THEN {<<>>}
    ELSE LET shorter == ItemLists(n - 1)
         IN  shorter \cup { Append(l, i) : l \in { s \in shorter : Len(s) = n - 1 },
                                           i \in ItemDicts }

\* Extra metadata a caller of the order link may pass.
PedidoExtras ==
    { EmptyMeta,
      [EmptyMeta EXCEPT !.origem = "pedido_marmita"],
      [EmptyMeta EXCEPT !.tipo = "assinatura"],
      [EmptyMeta EXCEPT !.numero_compra = "GC-9"] }

LinkPedidoArg(numero_compra, itens, cliente, extra) ==
    [numero_compra |-> numero_compra, itens |-> itens, cliente |-> cliente, extra |-> extra]

\* Every item list for one customer, and every customer and extra metadata for one list.
LinkPedidoArgs ==
    { LinkPedidoArg("GC-1", l, Cliente("Ana", "a@x"), EmptyMeta) : l \in ItemLists(MaxItens) }
    \cup { LinkPedidoArg("GC-1", <<ItemDict("A", IntKey(500), IntKey(2))>>, c, x) :
             c \in {Cliente("Ana", "a@x"), Cliente(Absent, "a@x"), NoCliente},
             x \in PedidoExtras }

LinkPedidoInit == InitWith(EmptyDb)
LinkPedidoNext ==
    n_req < MaxCheckouts /\ \E a \in LinkPedidoArgs : CallCriarLinkPedido(a)
LinkPedidoSpec == LinkPedidoInit /\ [][LinkPedidoNext]_vars

\* An item that lacks a name or a strictly positive price.
LacksNameOrPrice(item) ==
    \/ ~Truthy(item.name)
    \/ item.amount_cents.kind = "absent"
    \/ item.amount_cents.n <= 0

\* An item whose quantity is absent, zero or negative.
QuantityAbsentOrNonPositive(item) ==
    item.quantity.kind = "absent" \/ item.quantity.n <= 0

\* C11: a call of the order link with an empty item list, or with an item that lacks a
\* name or a strictly positive price, raises and sends nothing; a call whose items all
\* have a name and a positive price (and whose customer has an email) sends its request,
\* and an item whose quantity is absent, zero or negative is sent with quantity 1.
C11_OrderLinkValidation ==
    [][ op' = "criar_link_pagamento_pedido" =>
          LET its == req'.args.itens
              refused == its = <<>> \/ \E i \in DOMAIN its : LacksNameOrPrice(its[i])
          IN  /\ refused => (resp'.error # Absent /\ http_log' = http_log)
              /\ (~refused /\ Truthy(req'.args.cliente.email)) =>
                    /\ Len(http_log') = Len(http_log) + 1
                    /\ \A i \in DOMAIN its :
                          QuantityAbsentOrNonPositive(its[i]) =>
                              http_log'[Len(http_log')].payload.items[i].default_quantity = 1
      ]_vars

\* ================================================================ checkouts and the provider
CheckoutOps == {"criar_checkout", "pedidos_checkout"}

\* C12: a checkout sends at most one request to the provider; when the provider's answer
\* to it is a failure (transport error, status >= 400, or a success body that is no JSON)
\* the caller gets an error response with ok: false, and pagamentos, pedidos_header and
\* the line items are as they were before the request.
C12_ProviderFailurePersistsNothing ==
    [][ op' \in CheckoutOps =>
          /\ Len(http_log') <= Len(http_log) + 1
          /\ (Len(http_log') = Len(http_log) + 1
                /\ http_log'[Len(http_log')].outcome # "ok") =>
                /\ resp'.ok = "false"
                /\ resp'.status = 502
                /\ resp'.checkout_url = Absent
                /\ pagamentos' = pagamentos
                /\ pedidos_header' = pedidos_header
                /\ pedidos' = pedidos
      ]_vars

\* A cart checkout of a reference that already has a header, refused by the provider with
\* a body that is no JSON.
C12_Witness ==
    /\ op = "pedidos_checkout"
    /\ Len(http_log) >= 1
    /\ http_log[Len(http_log)].outcome = "bad_json"
    /\ http_log[Len(http_log)].caller = "criar_link_pagamento_pedido"
    /\ resp.ok = "false"
    /\ \E h \in pedidos_header : h.numero_compra = ReferenceOf(req.data)

\* The store write a checkout makes once it has its link.
CheckoutWrites == {"salvar_pagamento_supabase", "upsert_pedido_header"}

\* C13: once the provider has created the link of a checkout, the response is ok: true
\* with the link's URL and the provider's payload (and, in the subscription flow, the
\* link's id), whether the store write that follows raised or not: the response is a
\* function of the link alone.
C13_StoreFailureKeepsResponse ==
    [][ (/\ op' \in CheckoutOps
         /\ Len(http_log') = Len(http_log) + 1
         /\ http_log'[Len(http_log')].outcome = "ok") =>
          LET link == http_log'[Len(http_log')].link
          IN  /\ Attempted(CheckoutWrites)'
              /\ resp' = [Resp(200, "true", Absent, Absent) EXCEPT
                             !.checkout_url = link.url,
                             !.pagarme = link,
                             !.payment_link_id =
                                 IF op' = "criar_checkout" THEN link.id ELSE Absent]
      ]_vars

\* A subscription checkout whose insert into pagamentos raised: the link is returned and
\* no payment record holds it.
C13_Witness ==
    /\ op = "criar_checkout"
    /\ Raised(CheckoutWrites)
    /\ resp.ok = "true"
    /\ resp.checkout_url = http_log[Len(http_log)].link.url
    /\ ~\E i \in DOMAIN pagamentos : pagamentos[i].payment_link_id = resp.payment_link_id

\* ================================================================ metadata of a link request
\* C14: the metadata of every request that creates a link carries the flow's discriminator
\* and business identifier whatever extra metadata the caller gave: for a subscription
\* link tipo_assinatura is the validated kind and tipo is not "pedido"; for an order link
\* tipo is "pedido" and numero_compra is the purchase reference of the call.
C14_DiscriminatorNotOverridable ==
    [][ Len(http_log') = Len(http_log) + 1 =>
          LET m == http_log'[Len(http_log')].payload.metadata
          IN  /\ op' = "criar_checkout" =>
                    (m.tipo_assinatura = KindOf(req'.data.tipo) /\ m.tipo # "pedido")
              /\ op' \in LinkFns =>
                    (m.tipo_assinatura = KindOf(req'.args.tipo) /\ m.tipo # "pedido")
              /\ op' = "criar_link_pagamento_pedido" =>
                    (m.tipo = "pedido" /\ m.numero_compra = req'.args.numero_compra)
              /\ op' = "pedidos_checkout" =>
                    (m.tipo = "pedido" /\ m.numero_compra = ReferenceOf(req'.data))
      ]_vars

\* ================================================================ order header upserts
HeaderArg(numero_compra, total, dados_cliente, status, transaction_id, checkout_url) ==
    [numero_compra |-> numero_compra, total |-> total, dados_cliente |-> dados_cliente,
     status |-> status, pagarme_transaction_id |-> transaction_id,
     pagarme_checkout_url |-> checkout_url]

\* One call of supabase_client.upsert_pedido_header; `dados_cliente or {}` is NoCliente
\* when no customer is given.  A call that raises SupabaseError writes nothing.
CallUpsertHeader(a) ==
    \E raised \in BOOLEAN :
        /\ pedidos_header' =
              IF raised THEN pedidos_header
              ELSE upsert_pedido_header(pedidos_header,
                       HeaderRow(a.numero_compra, a.total, a.dados_cliente, a.status,
                                 a.pagarme_transaction_id, a.pagarme_checkout_url))
        /\ op' = "upsert_pedido_header"
        /\ req' = [args |-> a]
        /\ resp' = Resp(0, Absent, IF raised THEN "SupabaseError" ELSE Absent, Absent)
        /\ calls' = <<Call("upsert_pedido_header", a.numero_compra, a.status, raised, NoPayload)>>
        /\ n_req' = n_req + 1
        /\ UNCHANGED <<pagamentos, pedidos, webhooks_pagarme, http_log, inflight>>

\* ---------------------------------------------------------------- HeaderSpec
HeaderArgs ==
    { HeaderArg(nc, w[1], w[2], w[3], w[4], w[4]) :
        nc \in {"GC-1", "GC-2"},
        w \in { <<1500, Cliente("Ana", "a@x"), "aguardando_pagamento", "pl_9">>,
                <<900, NoCliente, "pago", Absent>>,
                <<700, [Cliente("Bia", "b@x") EXCEPT !.cpf = "123", !.telefone = "55"],
                  "aguardando_pagamento", "pl_8">> } }

HeaderInit == \E db \in {DbA, [DbA EXCEPT !.pedidos_header = {}]} : InitWith(db)
SomeUpsertHeader == n_req < MaxUpserts /\ \E a \in HeaderArgs : CallUpsertHeader(a)
SomeHeaderCheckout ==
    n_req < MaxUpserts /\ \E data \in SmallPedidoDatas : PedidosCheckout(data)
HeaderNext == SomeUpsertHeader \/ SomeHeaderCheckout
HeaderSpec == HeaderInit /\ [][HeaderNext]_vars

\* The header rows of purchase reference X.
HeadersOf(tbl, X) == { h \in tbl : h.numero_compra = X }

\* The header a step wrote, when it made an upsert that did not raise: the arguments of a
\* direct call, or what the cart checkout computed from cart, customer and link.
WrittenHeader(name, request, answer, cart) ==
    IF name = "upsert_pedido_header"
    THEN [numero_compra |-> request.args.numero_compra,
          total |-> request.args.total,
          status |-> request.args.status,
          pagarme_transaction_id |-> request.args.pagarme_transaction_id,
          pagarme_checkout_url |-> request.args.pagarme_checkout_url,
          cliente_nome |-> request.args.dados_cliente.nome,
          cliente_email |-> request.args.dados_cliente.email,
          cliente_cpf |-> request.args.dados_cliente.cpf,
          cliente_telefone |-> request.args.dados_cliente.telefone,
          cliente_endereco |-> request.args.dados_cliente.endereco]
    ELSE [numero_compra |-> ReferenceOf(request.data),
          total |-> TotalOf(cart),
          status |-> "aguardando_pagamento",
          pagarme_transaction_id |-> answer.pagarme.id,
          pagarme_checkout_url |-> answer.pagarme.url,
          cliente_nome |-> request.data.cliente.c.nome,
          cliente_email |-> request.data.cliente.c.email,
          cliente_cpf |-> request.data.cliente.c.cpf,
          cliente_telefone |-> request.data.cliente.c.telefone,
          cliente_endereco |-> request.data.cliente.c.endereco]

w_ref(name, request) ==
    IF name = "upsert_pedido_header" THEN request.args.numero_compra
    ELSE ReferenceOf(request.data)

\* C15: a direct upsert or a cart checkout whose upsert did not raise leaves exactly one
\* header for its purchase reference X, with every field (total, status, link id and url,
\* customer snapshot) as that upsert gave it, and leaves the other references' headers
\* alone; a step that made no such upsert leaves pedidos_header as it was.  So after any
\* sequence of them the header of X is the one of the most recent upsert.
C15_UpsertLastWriteWins ==
    [][ op' \in {"upsert_pedido_header", "pedidos_checkout"} =>
          IF HeaderWritten(calls')
          THEN LET w == WrittenHeader(op', req', resp', CartOf(w_ref(op', req')))
               IN  /\ HeadersOf(pedidos_header', w.numero_compra) = {w}
                   /\ \A h \in pedidos_header' :
                        h.numero_compra # w.numero_compra => h \in pedidos_header
                   /\ \A h \in pedidos_header :
                        h.numero_compra # w.numero_compra => h \in pedidos_header'
          ELSE pedidos_header' = pedidos_header
      ]_vars

\* The second request of a behaviour writes GC-1 without a customer: one header, with the
\* values of that write and no customer field of the header that was there before.
C15_Witness ==
    /\ n_req = 2
    /\ op = "upsert_pedido_header"
    /\ HeaderWritten(calls)
    /\ req.args.numero_compra = "GC-1"
    /\ req.args.dados_cliente = NoCliente
    /\ Cardinality(HeadersOf(pedidos_header, "GC-1")) = 1
    /\ \A h \in HeadersOf(pedidos_header, "GC-1") :
          /\ h.cliente_nome = Absent /\ h.cliente_email = Absent /\ h.cliente_cpf = Absent
          /\ h.total = 900 /\ h.status = "pago" /\ h.pagarme_transaction_id = Absent

\* ================================================================ redelivery
\* The provider delivers the last event once more.
Redeliver == op = "webhook" /\ Webhook(req.body, req.echo_of)

\* ---------------------------------------------------------------- RedeliverySpec
FirstDelivery == n_req = 0 /\ \E body \in WebhookBodies : Webhook(body, 0)
SomeRedelivery == n_req >= 1 /\ n_req <= MaxRedeliveries /\ Redeliver
RedeliveryNext == FirstDelivery \/ SomeRedelivery
RedeliverySpec == WebhookInit /\ [][RedeliveryNext]_vars

\* A delivery that is an event: a JSON object, or a body the handler reads as {}.
IsEventBody(b) == b.kind \in {"object", "unparseable", "empty"}

NoCallRaised(cs) == \A i \in DOMAIN cs : ~cs[i].raised

\* C16: when an event is delivered again right after it was processed, with no store call
\* failing in either delivery, payment records, order headers and line items stay exactly
\* as the first delivery left them, while the audit log gains one more row, equal in
\* content to the row of the first delivery, and keeps every row it had.
C16_RedeliveryIdempotentButAudited ==
    [][ (/\ op = "webhook" /\ op' = "webhook"
         /\ req'.body = req.body
         /\ IsEventBody(req.body)
         /\ NoCallRaised(calls) /\ NoCallRaised(calls')) =>
          /\ pagamentos' = pagamentos
          /\ pedidos_header' = pedidos_header
          /\ pedidos' = pedidos
          /\ Len(webhooks_pagarme) >= 1
          /\ Len(webhooks_pagarme') = Len(webhooks_pagarme) + 1
          /\ SubSeq(webhooks_pagarme', 1, Len(webhooks_pagarme)) = webhooks_pagarme
          /\ webhooks_pagarme'[Len(webhooks_pagarme')] = webhooks_pagarme[Len(webhooks_pagarme)]
      ]_vars

\* order.paid for order GC-1 and payment link pl_1 delivered twice: the order is paid and
\* the audit log holds two equal rows.
C16_Witness ==
    /\ n_req = 2
    /\ op = "webhook"
    /\ NoCallRaised(calls)
    /\ req.body.kind = "object"
    /\ req.body.type = "order.paid"
    /\ req.body.data.kind = "dict"
    /\ req.body.data.metadata.kind = "dict"
    /\ req.body.data.metadata.tipo = "pedido"
    /\ req.body.data.metadata.numero_compra = "GC-1"
    /\ req.body.data.metadata.payment_link_id = "pl_1"
    /\ Len(webhooks_pagarme) = 2
    /\ webhooks_pagarme[1] = webhooks_pagarme[2]
    /\ \A h \in HeadersOf(pedidos_header, "GC-1") : h.status = "pago"
    /\ \A r \in pedidos : r.numero_compra = "GC-1" => r.status = "pago"

\* ================================================================ order events in sequence
\* A recognized event of the order flow for purchase reference X.
OrderEvent(type, X, payment_link_id, order_id) ==
    [kind |-> "object", type |-> type,
     data |-> [kind |-> "dict", id |-> order_id,
               metadata |-> [EmptyMeta EXCEPT !.tipo = "pedido", !.numero_compra = X,
                                              !.payment_link_id = payment_link_id]]]

OrderEvents ==
    { OrderEvent(t, X, k[1], k[2]) :
        t \in RecognizedTypes, X \in {"GC-1", "GC-2"},
        k \in {<<Absent, Absent>>, <<"pl_1", "or_1">>} }

\* ---------------------------------------------------------------- OrderEventsSpec
OrderEventsInit == InitWith(DbA)
OrderEventsNext == n_req < MaxEvents /\ \E body \in OrderEvents : Webhook(body, 0)
OrderEventsSpec == OrderEventsInit /\ [][OrderEventsNext]_vars

\* Every header and every line item of X has status st.
OrderHasStatus(hs, items, X, st) ==
    /\ \A h \in hs : h.numero_compra = X => h.status = st
    /\ \A r \in items : r.numero_compra = X => r.status = st

\* C17: a recognized order-flow event for X processed with no store call failing leaves
\* the header of X and every line item of X with the status of that event's type,
\* whatever their status was and whatever event came before: "cancelado" when
\* checkout.closed follows order.paid, "pago" when order.paid follows checkout.closed.
C17_LastEventWins ==
    [][ (op' = "webhook" /\ IsOrderFlowEvent(req'.body) /\ NoCallRaised(calls')) =>
          LET X == req'.body.data.metadata.numero_compra
              after(first, second) ==
                  /\ op = "webhook" /\ IsOrderFlowEvent(req.body) /\ NoCallRaised(calls)
                  /\ req.body.data.metadata.numero_compra = X
                  /\ req.body.type = first /\ req'.body.type = second
          IN  /\ OrderHasStatus(pedidos_header', pedidos', X, StatusOfType(req'.body.type))
              /\ after("order.paid", "checkout.closed") =>
                    OrderHasStatus(pedidos_header', pedidos', X, "cancelado")
              /\ after("checkout.closed", "order.paid") =>
                    OrderHasStatus(pedidos_header', pedidos', X, "pago")
      ]_vars

\* checkout.closed for GC-1 processed after order.paid for GC-1: the order is cancelled.
C17_Witness ==
    /\ n_req = 2
    /\ op = "webhook"
    /\ NoCallRaised(calls)
    /\ req.body.type = "checkout.closed"
    /\ req.body.data.metadata.numero_compra = "GC-1"
    /\ Len(webhooks_pagarme) = 2
    /\ webhooks_pagarme[1].event_type = "order.paid"
    /\ webhooks_pagarme[1].payload.data.metadata.numero_compra = "GC-1"
    /\ \E h \in pedidos_header : h.numero_compra = "GC-1" /\ h.status = "cancelado"
    /\ \E r \in pedidos : r.numero_compra = "GC-1"
    /\ \A r \in pedidos : r.numero_compra = "GC-1" => r.status = "cancelado"

\* ================================================================ concurrent webhook handlers
\* The development server serves each request in its own thread, so several runs of
\* webhook_pagarme can be in progress at once.  Each store call is one round trip and is
\* atomic at the store; between two store calls of one handler any other handler may run.
\* No store call raises here.  A handler in flight is its body, the store call it will make
\* next (audit, pagamento, header, itens) or "done", and the store calls it has made.

\* lines 379-386: the body is parsed and the handler is about to write the audit row
Receive(body) ==
    /\ json_loads(body).kind = "object"
    /\ inflight' = Append(inflight, [body |-> body, pc |-> "audit", calls |-> <<>>])
    /\ UNCHANGED <<pagamentos, pedidos_header, pedidos, webhooks_pagarme, http_log,
                   op, req, resp, calls, n_req>>

\* line 442: the handler answers
Finish(h, cs) ==
    /\ inflight' = [inflight EXCEPT ![h].pc = "done", ![h].calls = cs]
    /\ op' = "webhook"
    /\ req' = [body |-> inflight[h].body, echo_of |-> 0]
    /\ resp' = Received
    /\ calls' = cs
    /\ n_req' = n_req + 1

\* lines 416-418: whether the event is of the order flow
is_pedido(metadata) ==
    LET tipo == IF Truthy(metadata.tipo) THEN metadata.tipo ELSE metadata.tipo_assinatura
    IN  tipo = "pedido" /\ Truthy(metadata.numero_compra)

\* lines 388-392, then the conditions of lines 396-399 up to the next store call
StepAudit(h) ==
    /\ inflight[h].pc = "audit"
    /\ LET payload == json_loads(inflight[h].body)
           event_type == payload.type
           data_obj == or_empty_data(payload.data)
           cs == <<Call("salvar_webhook_pagarme", or_empty_str(event_type), Absent,
                        FALSE, payload)>>
       IN  /\ webhooks_pagarme' =
                  salvar_webhook_pagarme(webhooks_pagarme, or_empty_str(event_type), payload)
           /\ IF /\ event_type \in RecognizedTypes
                 /\ data_obj.kind = "dict"
                 /\ or_empty_meta(data_obj.metadata).kind = "dict"
              THEN /\ inflight' = [inflight EXCEPT ![h].pc = "pagamento", ![h].calls = cs]
                   /\ UNCHANGED <<op, req, resp, calls, n_req>>
              ELSE Finish(h, cs)
    /\ UNCHANGED <<pagamentos, pedidos_header, pedidos, http_log>>

\* lines 401-414, then the condition of line 419
StepPagamento(h) ==
    /\ inflight[h].pc = "pagamento"
    /\ LET payload == json_loads(inflight[h].body)
           data_obj == or_empty_data(payload.data)
           metadata == or_empty_meta(data_obj.metadata)
           pay == webhook_pagamento(payload.type, data_obj.id, metadata, {}, Db)
           cs == inflight[h].calls \o pay.calls
       IN  /\ pagamentos' = pay.db.pagamentos
           /\ IF is_pedido(metadata)
              THEN /\ inflight' = [inflight EXCEPT ![h].pc = "header", ![h].calls = cs]
                   /\ UNCHANGED <<op, req, resp, calls, n_req>>
              ELSE Finish(h, cs)
    /\ UNCHANGED <<pedidos_header, pedidos, webhooks_pagarme, http_log>>

\* lines 430-434: atualizar_status_pedido
StepHeader(h) ==
    /\ inflight[h].pc = "header"
    /\ LET payload == json_loads(inflight[h].body)
           numero_compra == payload.data.metadata.numero_compra
           novo == novo_status_pedido(payload.type)
       IN  /\ pedidos_header' =
                  atualizar_status_pedido(pedidos_header, numero_compra, novo, payload.data.id)
           /\ inflight' = [inflight EXCEPT
                  ![h].pc = "itens",
                  ![h].calls = Append(@, Call("atualizar_status_pedido", numero_compra,
                                              novo, FALSE, NoPayload))]
    /\ UNCHANGED <<pagamentos, pedidos, webhooks_pagarme, http_log,
                   op, req, resp, calls, n_req>>

\* line 435: marcar_itens_com_status, then line 442
StepItens(h) ==
    /\ inflight[h].pc = "itens"
    /\ LET payload == json_loads(inflight[h].body)
           numero_compra == payload.data.metadata.numero_compra
           novo == novo_status_pedido(payload.type)
       IN  /\ pedidos' = marcar_itens_com_status(pedidos, numero_compra, novo)
           /\ Finish(h, Append(inflight[h].calls,
                               Call("marcar_itens_com_status", numero_compra, novo,
                                    FALSE, NoPayload)))
    /\ UNCHANGED <<pagamentos, pedidos_header, webhooks_pagarme, http_log>>

\* ---------------------------------------------------------------- ConcurrentSpec
\* Recognized events of the order flow, all for purchase reference GC-1.
ConcurrentEvents == { b \in OrderEvents : b.data.metadata.numero_compra = "GC-1" }

ConcurrentInit == InitWith(DbA)
SomeReceive == Len(inflight) < MaxHandlers /\ \E body \in ConcurrentEvents : Receive(body)
SomeStepAudit == \E h \in DOMAIN inflight : StepAudit(h)
SomeStepPagamento == \E h \in DOMAIN inflight : StepPagamento(h)
SomeStepHeader == \E h \in DOMAIN inflight : StepHeader(h)
SomeStepItens == \E h \in DOMAIN inflight : StepItens(h)
ConcurrentNext ==
    \/ SomeReceive
    \/ SomeStepAudit
    \/ SomeStepPagamento
    \/ SomeStepHeader
    \/ SomeStepItens
ConcurrentSpec == ConcurrentInit /\ [][ConcurrentNext]_vars

\* Several handlers ran and every one of them has answered.
AllFinished ==
    /\ Len(inflight) >= 2
    /\ \A h \in DOMAIN inflight : inflight[h].pc = "done"

C19_LinkFunctionsEquivalent ==
    [][ op' \in LinkFns =>
          LET a == req'.args
              app == app_payload_assinatura(a.tipo, a.email, a.nome, a.extra)
              pc == pc_payload_assinatura(a.tipo, a.email, a.nome, a.extra)
          IN  /\ (app.payload = NoRequest) <=> (pc.payload = NoRequest)
              /\ KindOf(a.tipo) \notin SubscriptionKinds => http_log' = http_log
              /\ Len(http_log') = Len(http_log) + 1 =>
                    /\ http_log'[Len(http_log')].payload = app.payload
                    /\ http_log'[Len(http_log')].payload = pc.payload
      ]_vars

====
